---- MODULE Spec2Model ----
(***************************************************************************)
(* The jccc lexer (src/lexer/lex.c): lex, unlex, skip_to_token and the     *)
(* token classifiers, as a state machine over one Lexer and one caller.    *)
(*                                                                         *)
(* A character is a one-character string; a stream and a token's contents  *)
(* are sequences of characters.  The stream is the file behind l->fp: its  *)
(* contents `input` never change and `pos` is the number of characters     *)
(* already consumed (the file position).  The characters are 7-bit source  *)
(* text, for which the conversion of fgetc's int to `char cur` keeps the   *)
(* value and EOF compares equal to EOF (char is signed in the build).      *)
(*                                                                         *)
(* TOKEN_PUTBACKS and TOKEN_LENGTH are set in lex.h; the model keeps them  *)
(* as parameters, TOKEN_LENGTH large enough for the "[end of file]" text   *)
(* that lex copies into a token.                                           *)
(***************************************************************************)
EXTENDS Integers, Sequences, FiniteSets, TLC

TOKEN_PUTBACKS == 2
TOKEN_LENGTH == 16

\* Longest stream of the pushback specification, of the scanner one and of
\* the comment one; and the number of lex calls a replay is followed for.
MaxStream == 2
MaxLen == 5
MaxComment == 7
MaxCalls == 2

\* The streams of the identifier specification: at most MaxHead other
\* identifier characters, a run of up to TOKEN_LENGTH + MaxOver letters and
\* at most MaxTail characters after it.
MaxHead == 1
MaxOver == 2
MaxTail == 2

\* Longest stream of the quote specification and of the fair scanner one,
\* and longest text of the classifier one.
MaxQuote == 4
MaxProgress == 3
MaxText == 3

VARIABLES
    input,          \* the characters of the file behind l->fp
    pos,            \* the file position of l->fp
    unlexed,        \* l->unlexed, the array of TOKEN_PUTBACKS tokens
    unlexed_count,  \* l->unlexed_count
    t,              \* the caller's Token object that lex writes through *t
    rc,             \* the value the last call returned
    err,            \* the diagnostic the last call printed, "" if none
    op,             \* the last call: "none", "lex", "unlex" or a classifier
    pushes,         \* caller: successful unlex calls of the current run
    pops,           \* caller: lex calls that have replayed that run so far
    text,           \* the string a caller hands to a classifier
    kind            \* the TokenType the last classifier call returned

vars ==
    <<input, pos, unlexed, unlexed_count, t, rc, err, op, pushes, pops,
      text, kind>>

----------------------------------------------------------------------------
\* Characters and character classes

EOF == "EOF"

Letters ==
    {"a", "b", "c", "e", "f", "g", "k", "l", "n", "t", "u", "x", "y",
     "J", "L", "P"}
Digits == {"0", "1", "2", "3", "4", "5", "6", "7", "8", "9"}

isalnum(c) == c \in Letters \cup Digits

in_string(c, s) == \E i \in 1..Len(s) : s[i] = c

single_char_tokens == <<"(", ")", "{", "}", "[", "]", ";">>

is_valid_numeric_or_id_char(c) == isalnum(c) \/ c = "_" \/ c = "."

----------------------------------------------------------------------------
\* Token kinds and the classifiers

TokenTypes ==
    {"TT_EOF", "TT_NEWLINE", "TT_OPAREN", "TT_CPAREN", "TT_OBRACE",
     "TT_CBRACE", "TT_OBRACKET", "TT_CBRACKET", "TT_SEMI", "TT_LITERAL",
     "TT_IDENTIFIER", "TT_NO_TOKEN"}

ttype_one_char(c) ==
    CASE c = "(" -> "TT_OPAREN"
      [] c = ")" -> "TT_CPAREN"
      [] c = "{" -> "TT_OBRACE"
      [] c = "}" -> "TT_CBRACE"
      [] c = "[" -> "TT_OBRACKET"
      [] c = "]" -> "TT_CBRACKET"
      [] c = ";" -> "TT_SEMI"
      [] OTHER -> "TT_NO_TOKEN"

\* The loop of ttype_many_chars from index i (1-based) on, with the values of
\* all_numeric and count_us so far; count_fs is counted and never read.
RECURSIVE many_chars_loop(_, _, _, _)
many_chars_loop(contents, i, all_numeric, count_us) ==
    IF i > Len(contents)
    THEN IF all_numeric /\ count_us = 1 /\ contents[i - 1] = "u"
         THEN "TT_LITERAL"
         ELSE IF all_numeric /\ count_us = 0
              THEN "TT_LITERAL"
              ELSE "TT_IDENTIFIER"
    ELSE LET c == contents[i] IN
         IF c = "."
         THEN "TT_LITERAL"
         ELSE LET us == IF c = "u" THEN count_us + 1 ELSE count_us
                  an == IF c \notin Digits /\ c # "u" THEN FALSE ELSE all_numeric
              IN IF c = "'" \/ c = "\""
                 THEN "TT_LITERAL"
                 ELSE many_chars_loop(contents, i + 1, an, us)

ttype_many_chars(contents) == many_chars_loop(contents, 1, TRUE, 0)

\* ttype_from_string as it would be without the test of the length: the
\* first character alone decides.
ttype_from_string_first_char(contents) ==
    IF Len(contents) >= 1 /\ ttype_one_char(contents[1]) # "TT_NO_TOKEN"
    THEN ttype_one_char(contents[1])
    ELSE ttype_many_chars(contents)

ttype_from_string(contents) ==
    IF Len(contents) = 1 /\ ttype_one_char(contents[1]) # "TT_NO_TOKEN"
    THEN ttype_one_char(contents[1])
    ELSE ttype_many_chars(contents)

----------------------------------------------------------------------------
\* The stream

\* fgetc/getc at file position p: the character read, or EOF.
fgetc(s, p) == IF p < Len(s) THEN s[p + 1] ELSE EOF

\* The file position after fgetc at p: it does not move at end of file.
after_fgetc(s, p) == IF p < Len(s) THEN p + 1 ELSE p

\* fseek(l->fp, -1, SEEK_CUR)
fseek_back(p) == p - 1

\* ungetc as it would be if the character were never put back.
ungetc_drops(c, p) == p

\* ungetc as it would be if EOF moved the file position back as well.
ungetc_eof_too(c, p) == p - 1

\* ungetc(c, l->fp): puts one character back; ungetc(EOF) does nothing.
ungetc(c, p) == IF c = EOF THEN p ELSE p - 1

\* is_blank_or_slash as it would be with the newline taken for white space.
is_blank_or_slash_or_newline(c) == c = " " \/ c = "\t" \/ c = "/" \/ c = "\n"

is_blank_or_slash(c) == c = " " \/ c = "\t" \/ c = "/"

\* The conditions of the if / else-if chain in the loop of skip_to_token.
\* in_block: 0 outside comments, 1 in a line comment, 2 in a block comment.
opens_line(cur, prev, in_block) == cur = "/" /\ prev = "/" /\ in_block = 0

opens_block(cur, prev, in_block) == cur = "*" /\ prev = "/" /\ in_block = 0

\* closes_comment as it would be without the pass counter.
closes_comment_no_pass(cur, prev, in_block, pass) ==
    \/ in_block = 1 /\ cur = "\n"
    \/ in_block = 2 /\ cur = "/" /\ prev = "*"

\* closes_comment as it would be with the pass counter tested < 0: the
\* close is held back for two characters after the opener.
closes_comment_strict_pass(cur, prev, in_block, pass) ==
    \/ in_block = 1 /\ cur = "\n"
    \/ in_block = 2 /\ cur = "/" /\ prev = "*" /\ pass < 0

closes_comment(cur, prev, in_block, pass) ==
    \/ in_block = 1 /\ cur = "\n"
    \/ in_block = 2 /\ cur = "/" /\ prev = "*" /\ pass <= 0

slash_alone(cur, prev, in_block) ==
    prev = "/" /\ ~(cur = "*" \/ cur = "/") /\ in_block = 0

\* The while loop of skip_to_token, entered with the file at p.
RECURSIVE skip_loop(_, _, _, _, _)
skip_loop(s, p, prev, in_block, pass) ==
    LET cur == fgetc(s, p)
        q == after_fgetc(s, p)
    IN IF cur = EOF
       THEN [pos |-> q, rc |-> -1]
       ELSE LET first == opens_line(cur, prev, in_block)
                second == ~first /\ opens_block(cur, prev, in_block)
                third == ~first /\ ~second /\ closes_comment(cur, prev, in_block, pass)
                fourth == ~first /\ ~second /\ ~third /\ slash_alone(cur, prev, in_block)
                blk == IF first THEN 1 ELSE IF second THEN 2 ELSE IF third THEN 0 ELSE in_block
                pss == IF second THEN 2 ELSE pass
            IN IF fourth
               THEN [pos |-> fseek_back(q), rc |-> 0]
               ELSE IF ~is_blank_or_slash(cur) /\ blk = 0
               THEN [pos |-> fseek_back(q), rc |-> 0]
               ELSE skip_loop(s, q, cur, blk, pss - 1)

skip_to_token(s, p) ==
    LET cur == fgetc(s, p)
        q == after_fgetc(s, p)
    IN IF cur # EOF
       THEN IF ~is_blank_or_slash(cur)
            THEN [pos |-> fseek_back(q), rc |-> 0]
            ELSE skip_loop(s, q, cur, 0, 0)
       ELSE [pos |-> q, rc |-> -1]

----------------------------------------------------------------------------
\* Tokens

Token(contents, length, type) ==
    [contents |-> contents, length |-> length, type |-> type]

eof == <<"[", "e", "n", "d", " ", "o", "f", " ", "f", "i", "l", "e", "]">>
nline == <<"[", "n", "e", "w", "l", "i", "n", "e", "]">>

\* The diagnostics of PRINT_ERROR.
NoError == ""
ErrWhitespace == "internal error: did not skip whitespace correctly"
ErrTooLong == "identifier too long"
ErrUnlexFull == "internal: tried to unlex more than TOKEN_PUTBACKS tokens at a time"

\* The identifier loop as it would be if a full token were returned as it
\* is, the rest of the run left in the stream.
RECURSIVE read_id_truncates(_, _, _, _)
read_id_truncates(s, p, contents, told) ==
    LET c == fgetc(s, p)
        q == after_fgetc(s, p)
    IN IF ~is_valid_numeric_or_id_char(c) \/ Len(contents) >= TOKEN_LENGTH - 1
       THEN [pos |-> ungetc(c, q),
             t |-> Token(contents, Len(contents), ttype_many_chars(contents)),
             rc |-> 0, err |-> NoError]
       ELSE read_id_truncates(s, q, Append(contents, c), told)

\* The identifier loop of lex: contents holds the characters copied so far
\* (pos in the code is Len(contents)), the file is at p.
RECURSIVE read_id(_, _, _, _)
read_id(s, p, contents, told) ==
    LET c == fgetc(s, p)
        q == after_fgetc(s, p)
    IN IF ~is_valid_numeric_or_id_char(c)
       THEN [pos |-> ungetc(c, q),
             t |-> Token(contents, Len(contents), ttype_many_chars(contents)),
             rc |-> 0, err |-> NoError]
       ELSE IF Len(contents) >= TOKEN_LENGTH - 1
       THEN [pos |-> q, t |-> [told EXCEPT !.contents = contents],
             rc |-> -1, err |-> ErrTooLong]
       ELSE read_id(s, q, Append(contents, c), told)

\* lex from the stream (the pushback buffer is empty): the file is at p and
\* told is what the caller's Token held before the call.
lex_stream(s, p, told) ==
    LET p1 == skip_to_token(s, p).pos
        init == fgetc(s, p1)
        p2 == after_fgetc(s, p1)
        cleared == [told EXCEPT !.contents = <<>>]
    IN IF init = EOF
       THEN [pos |-> p2, t |-> Token(eof, Len(eof), "TT_EOF"),
             rc |-> 0, err |-> NoError]
       ELSE IF init = " " \/ init = "\t"
       THEN [pos |-> p2, t |-> cleared, rc |-> -1, err |-> ErrWhitespace]
       ELSE IF init = "\n"
       THEN [pos |-> p2, t |-> Token(nline, Len(nline), "TT_NEWLINE"),
             rc |-> 0, err |-> NoError]
       ELSE IF in_string(init, single_char_tokens)
       THEN [pos |-> p2, t |-> Token(<<init>>, 1, ttype_one_char(init)),
             rc |-> 0, err |-> NoError]
       ELSE IF is_valid_numeric_or_id_char(init)
       THEN read_id(s, p2, <<init>>, told)
       ELSE [pos |-> p2, t |-> [told EXCEPT !.contents = <<init>>],
             rc |-> 0, err |-> NoError]

\* A Lexer value: the stream with its position and the pushback buffer.
Lexer(s, p, buf, n) ==
    [input |-> s, pos |-> p, unlexed |-> buf, unlexed_count |-> n]

\* lex as it would be with the replayed token copied from the bottom of the
\* buffer, &l->unlexed[0], and not from the top.
lex_copies_bottom(l, told) ==
    IF l.unlexed_count > 0
    THEN [l |-> [l EXCEPT !.unlexed_count = l.unlexed_count - 1],
          t |-> l.unlexed[1],
          rc |-> 0, err |-> NoError]
    ELSE LET r == lex_stream(l.input, l.pos, told)
         IN [l |-> [l EXCEPT !.pos = r.pos], t |-> r.t, rc |-> r.rc, err |-> r.err]

\* lex as it would be with skip_to_token called before the look at the
\* pushback buffer.
lex_skips_first(l, told) ==
    IF l.unlexed_count > 0
    THEN [l |-> [l EXCEPT !.unlexed_count = l.unlexed_count - 1,
                          !.pos = skip_to_token(l.input, l.pos).pos],
          t |-> l.unlexed[l.unlexed_count],
          rc |-> 0, err |-> NoError]
    ELSE LET r == lex_stream(l.input, l.pos, told)
         IN [l |-> [l EXCEPT !.pos = r.pos], t |-> r.t, rc |-> r.rc, err |-> r.err]

\* lex(l, t): the Lexer and the caller's Token after the call, the value
\* returned and the diagnostic printed.
lex(l, told) ==
    IF l.unlexed_count > 0
    THEN [l |-> [l EXCEPT !.unlexed_count = l.unlexed_count - 1],
          t |-> l.unlexed[l.unlexed_count],
          rc |-> 0, err |-> NoError]
    ELSE LET r == lex_stream(l.input, l.pos, told)
         IN [l |-> [l EXCEPT !.pos = r.pos], t |-> r.t, rc |-> r.rc, err |-> r.err]

\* unlex as it would be without the memcpy.
unlex_no_copy(l, tok) ==
    IF l.unlexed_count >= TOKEN_PUTBACKS
    THEN [l |-> l, rc |-> -1, err |-> ErrUnlexFull]
    ELSE [l |-> [l EXCEPT !.unlexed_count = l.unlexed_count + 1],
          rc |-> 0, err |-> NoError]

\* unlex as it would be with the full buffer reported and 0 returned.
unlex_full_returns_ok(l, tok) ==
    IF l.unlexed_count >= TOKEN_PUTBACKS
    THEN [l |-> l, rc |-> 0, err |-> ErrUnlexFull]
    ELSE [l |-> [l EXCEPT !.unlexed[l.unlexed_count + 1] = tok,
                          !.unlexed_count = l.unlexed_count + 1],
          rc |-> 0, err |-> NoError]

\* unlex as it would be with the capacity test written > for >=: the
\* token past the array is not modelled, the count is.
unlex_off_by_one(l, tok) ==
    IF l.unlexed_count > TOKEN_PUTBACKS
    THEN [l |-> l, rc |-> -1, err |-> ErrUnlexFull]
    ELSE [l |-> [l EXCEPT !.unlexed =
                              [i \in 1..TOKEN_PUTBACKS |->
                                  IF i = l.unlexed_count + 1 THEN tok ELSE l.unlexed[i]],
                          !.unlexed_count = l.unlexed_count + 1],
          rc |-> 0, err |-> NoError]

\* unlex(l, t): the Lexer after the call, the value returned and the
\* diagnostic printed.
unlex(l, tok) ==
    IF l.unlexed_count >= TOKEN_PUTBACKS
    THEN [l |-> l, rc |-> -1, err |-> ErrUnlexFull]
    ELSE [l |-> [l EXCEPT !.unlexed[l.unlexed_count + 1] = tok,
                          !.unlexed_count = l.unlexed_count + 1],
          rc |-> 0, err |-> NoError]

----------------------------------------------------------------------------
\* The state machine

TheLexer == Lexer(input, pos, unlexed, unlexed_count)

\* A Token object of the caller that no call has written yet: zeroed, or
\* holding whatever the memory held.
ZeroToken == Token(<<>>, 0, "TT_EOF")
StaleToken == Token(<<"x", "y">>, 7, "TT_NO_TOKEN")

\* Tokens a caller may hand to unlex besides the one it last received.
TokA == Token(<<"a">>, 1, "TT_IDENTIFIER")
TokB == Token(<<"(">>, 1, "TT_OPAREN")

RECURSIVE Strings(_, _)
Strings(chars, n) ==
    IF n = 0
    THEN {<<>>}
    ELSE LET shorter == Strings(chars, n - 1)
         IN shorter \cup {Append(s, c) : s \in {x \in shorter : Len(x) = n - 1}, c \in chars}

PushChars == {"a", "+", " "}
ScanChars == {" ", "\t", "/", "*", "\n", "a", "+"}
CommentChars == {"/", "*", "\n", "a"}

InitLexer(streams, tokens) ==
    /\ input \in streams
    /\ pos = 0
    /\ unlexed = [i \in 1..TOKEN_PUTBACKS |-> ZeroToken]
    /\ unlexed_count = 0
    /\ t \in tokens
    /\ rc = 0
    /\ err = NoError
    /\ op = "none"
    /\ pushes = 0
    /\ pops = 0
    /\ text = <<>>
    /\ kind = "TT_NO_TOKEN"

Init == InitLexer(Strings(PushChars, MaxStream), {StaleToken})

InitScan == InitLexer(Strings(ScanChars, MaxLen), {ZeroToken, StaleToken})

InitComment == InitLexer(Strings(CommentChars, MaxComment), {ZeroToken})

\* The caller calls lex(&l, &t).
LexCall ==
    \E r \in {lex(TheLexer, t)} :
    LET replay == unlexed_count > 0 /\ pops < pushes
    IN /\ pos' = r.l.pos
       /\ unlexed' = r.l.unlexed
       /\ unlexed_count' = r.l.unlexed_count
       /\ t' = r.t
       /\ rc' = r.rc
       /\ err' = r.err
       /\ op' = "lex"
       /\ pushes' = IF replay THEN pushes ELSE 0
       /\ pops' = IF replay THEN pops + 1 ELSE 0
       /\ UNCHANGED <<input, text, kind>>

\* The caller calls unlex(&l, &tok) with the token it last received or
\* with one it has built.
UnlexCall ==
    \E tok \in {t, TokA, TokB} :
        LET r == unlex(TheLexer, tok)
        IN /\ pos' = r.l.pos
           /\ unlexed' = r.l.unlexed
           /\ unlexed_count' = r.l.unlexed_count
           /\ rc' = r.rc
           /\ err' = r.err
           /\ op' = "unlex"
           /\ pushes' = IF r.rc # 0 THEN 0 ELSE IF pops > 0 THEN 1 ELSE pushes + 1
           /\ pops' = 0
           /\ UNCHANGED <<input, t, text, kind>>

Next == LexCall \/ UnlexCall

Spec == Init /\ [][Next]_vars

\* A caller that only reads: lex after lex, no unlex.
NextScan == LexCall

SpecScan == InitScan /\ [][NextScan]_vars

NextComment == LexCall

SpecComment == InitComment /\ [][NextComment]_vars

\* A caller that reads streams with long runs of identifier characters.
Run(c, n) == [i \in 1..n |-> c]

HeadChars == {"1", "_", "."}
TailChars == {" ", "(", "\n", "b"}

IdentStreams ==
    {h \o Run("a", n) \o tl :
        h \in Strings(HeadChars, MaxHead),
        n \in 0..(TOKEN_LENGTH + MaxOver),
        tl \in Strings(TailChars, MaxTail)}

InitIdent == InitLexer(IdentStreams, {StaleToken})

NextIdent == LexCall

SpecIdent == InitIdent /\ [][NextIdent]_vars

\* A caller that reads streams with quote characters and backslashes.
QuoteChars == {"\"", "'", "\\", "a"}

InitQuote == InitLexer(Strings(QuoteChars, MaxQuote), {ZeroToken, StaleToken})

NextQuote == LexCall

SpecQuote == InitQuote /\ [][NextQuote]_vars

\* A caller that keeps calling lex: every call returns, so the next one
\* is made.
ProgressChars == {" ", "/", "*", "\n", "a", "+"}

InitProgress == InitLexer(Strings(ProgressChars, MaxProgress), {StaleToken})

NextProgress == LexCall

SpecProgress == InitProgress /\ [][NextProgress]_vars /\ WF_vars(LexCall)

\* A caller of the classifiers, as test_ttype_from_string is: it holds a
\* string and hands it to ttype_from_string or to ttype_many_chars.
ClassChars == {"1", "2", "u", "f", ".", "\"", "'", "a", "_", "(", "}", ";"}

ClassExamples ==
    {<<"1", ".", "2", "f">>,
     <<"\"", "P", "l", "a", "n", "c", "k", "\"">>,
     <<"'", "L", "a", "n", "g", "u", "a", "g", "e", "'">>,
     <<"J", "a", "b", "a">>,
     <<"c", "a", "t", "_">>}

InitClassify ==
    /\ input = <<>>
    /\ pos = 0
    /\ unlexed = [i \in 1..TOKEN_PUTBACKS |-> ZeroToken]
    /\ unlexed_count = 0
    /\ t = ZeroToken
    /\ rc = 0
    /\ err = NoError
    /\ op = "none"
    /\ pushes = 0
    /\ pops = 0
    /\ text \in Strings(ClassChars, MaxText) \cup ClassExamples
    /\ kind = "TT_NO_TOKEN"

FromStringCall ==
    /\ kind' = ttype_from_string(text)
    /\ op' = "ttype_from_string"
    /\ UNCHANGED <<input, pos, unlexed, unlexed_count, t, rc, err, pushes, pops, text>>

ManyCharsCall ==
    /\ kind' = ttype_many_chars(text)
    /\ op' = "ttype_many_chars"
    /\ UNCHANGED <<input, pos, unlexed, unlexed_count, t, rc, err, pushes, pops, text>>

NextClassify == FromStringCall \/ ManyCharsCall

SpecClassify == InitClassify /\ [][NextClassify]_vars

----------------------------------------------------------------------------
\* Sequences of calls, for the properties that speak of several calls

\* The tokens the pushback buffer holds, oldest first.
Held(l) == SubSeq(l.unlexed, 1, l.unlexed_count)

Reverse(s) == [i \in 1..Len(s) |-> s[Len(s) + 1 - i]]

\* unlex of the tokens of ts, first to last; ok iff every call returned 0.
RECURSIVE UnlexAll(_, _)
UnlexAll(l, ts) ==
    IF Len(ts) = 0
    THEN [l |-> l, ok |-> TRUE]
    ELSE LET r == unlex(l, ts[1])
         IN IF r.rc # 0
            THEN [l |-> r.l, ok |-> FALSE]
            ELSE UnlexAll(r.l, Tail(ts))

\* n more calls of lex with the same Token object, which holds told before
\* the first: the Lexer and the object after the last, and out extended by
\* what each call returned and left in the object.
RECURSIVE LexMore(_, _, _, _)
LexMore(l, told, n, out) ==
    IF n = 0
    THEN [l |-> l, t |-> told, out |-> out]
    ELSE LET r == lex(l, told)
         IN LexMore(r.l, r.t, n - 1, Append(out, [rc |-> r.rc, t |-> r.t]))

LexTimes(l, told, n) == LexMore(l, told, n, <<>>)

----------------------------------------------------------------------------
\* The pushback buffer (Spec)

\* C1: from every state with room for k more tokens, k unlex calls with
\* any tokens t1..tk all succeed and the k lex calls after them return
\* tk, ..., t1, each whole (contents, length, kind), and leave the buffer
\* holding what it held before and the stream where it was.
C1_RoundTrip ==
    \A k \in 1..(TOKEN_PUTBACKS - unlexed_count) :
        \A ts \in [1..k -> {t, TokA, TokB}] :
            LET pu == UnlexAll(TheLexer, ts)
                po == LexTimes(pu.l, t, k)
            IN /\ pu.ok
               /\ pu.l.unlexed_count = unlexed_count + k
               /\ po.out = [i \in 1..k |-> [rc |-> 0, t |-> ts[k + 1 - i]]]
               /\ Held(po.l) = Held(TheLexer)
               /\ po.l.pos = pos

\* A run has filled the buffer with unlex calls and emptied it again with
\* as many lex calls, the last returning the token pushed first.
C1_Witness ==
    /\ op = "lex" /\ rc = 0
    /\ pushes = TOKEN_PUTBACKS /\ pops = TOKEN_PUTBACKS
    /\ unlexed_count = 0
    /\ t = unlexed[1]
    /\ unlexed[1] # unlexed[TOKEN_PUTBACKS]

\* Two runs of lex calls returned the same and left the stream at the same
\* position.
SameCalls(a, b) == a.out = b.out /\ a.l.pos = b.l.pos

\* The k lex calls from the current state have ended in rd: if all of them
\* succeeded, unlex of their tokens, last read first, succeeds and the lex
\* calls after it return what they return from the current state.
ReplayAgrees(k, rd) ==
    (\A i \in 1..k : rd.out[i].rc = 0) =>
        LET pu == UnlexAll(rd.l, Reverse([i \in 1..k |-> rd.out[i].t]))
        IN /\ pu.ok
           /\ SameCalls(LexTimes(pu.l, rd.t, k + MaxCalls),
                        LexTimes(TheLexer, t, k + MaxCalls))

\* C2: when the next k <= TOKEN_PUTBACKS lex calls succeed and the caller
\* unlexes their tokens, last read first, the lex calls from then on return
\* what they return when nothing is unlexed: the k tokens again and then
\* the rest of the stream.
C2_LookaheadReplay ==
    \A k \in 1..TOKEN_PUTBACKS : ReplayAgrees(k, LexTimes(TheLexer, t, k))

\* The stream a+ has been read to its end, both tokens given back, last
\* read first, and both read again.
C2_Witness ==
    /\ input = <<"a", "+">> /\ pos = 2
    /\ op = "lex" /\ rc = 0
    /\ pushes >= 2 /\ pops = pushes
    /\ unlexed_count = 0
    /\ unlexed[1].contents = <<"+">> /\ unlexed[2] = TokA
    /\ t = unlexed[1]

\* C3: unlex on a full buffer returns -1 and leaves the count, the stored
\* tokens and the stream position as they were; on a buffer that is not
\* full it returns 0.
C3_UnlexFull ==
    [][op' = "unlex" =>
          IF unlexed_count >= TOKEN_PUTBACKS
          THEN /\ rc' = -1
               /\ unlexed_count' = unlexed_count
               /\ unlexed' = unlexed
               /\ pos' = pos
               /\ input' = input
          ELSE rc' = 0]_vars

\* An unlex call has failed on a full buffer.
C3_Witness ==
    /\ op = "unlex" /\ rc = -1 /\ err = ErrUnlexFull
    /\ unlexed_count = TOKEN_PUTBACKS

\* C4: the pushback count stays within 0..TOKEN_PUTBACKS.
C4_CountInRange == unlexed_count >= 0 /\ unlexed_count <= TOKEN_PUTBACKS

\* The buffer is full, after the whole stream was read and an unlex call
\* was refused.
C4_Witness ==
    /\ unlexed_count = TOKEN_PUTBACKS
    /\ op = "unlex" /\ rc = -1
    /\ pos > 0 /\ pos = Len(input)

\* C5: lex on a non-empty buffer returns the token pushed last, takes one
\* off the count and leaves the stream position and the stored tokens as
\* they were; so the stream position moves only in a call that found the
\* buffer empty.
C5_PopFrame ==
    [][op' = "lex" =>
          /\ unlexed_count > 0 =>
                 /\ rc' = 0
                 /\ t' = unlexed[unlexed_count]
                 /\ unlexed_count' = unlexed_count - 1
                 /\ unlexed' = unlexed
                 /\ pos' = pos
          /\ pos' # pos => unlexed_count = 0]_vars

\* A lex call has taken the top token off a buffer that held two, with
\* unread characters left in the stream.
C5_Witness ==
    /\ op = "lex" /\ rc = 0
    /\ pops = 1 /\ pushes >= 2
    /\ unlexed_count = pushes - 1
    /\ t = unlexed[unlexed_count + 1]
    /\ pos < Len(input)

----------------------------------------------------------------------------
\* What the stream holds from a position on, read off the characters alone

IsBlank(c) == c = " " \/ c = "\t"

\* The index of the first * of a */ at or after index i of s, 0 if none.
RECURSIVE FirstClose(_, _)
FirstClose(s, i) ==
    IF i + 1 > Len(s)
    THEN 0
    ELSE IF s[i] = "*" /\ s[i + 1] = "/" THEN i ELSE FirstClose(s, i + 1)

\* The index of the first newline at or after index i of s, 0 if none.
RECURSIVE FirstNewline(_, _)
FirstNewline(s, i) ==
    IF i > Len(s)
    THEN 0
    ELSE IF s[i] = "\n" THEN i ELSE FirstNewline(s, i + 1)

StartsWith(s, p, a, b) == p + 2 <= Len(s) /\ s[p + 1] = a /\ s[p + 2] = b

\* From position p on s holds no token start: only blanks, closed block
\* comments, and at the end a line comment without its newline or a block
\* comment that is never closed.
RECURSIVE OnlySkippable(_, _)
OnlySkippable(s, p) ==
    IF p >= Len(s)
    THEN TRUE
    ELSE IF IsBlank(s[p + 1])
    THEN OnlySkippable(s, p + 1)
    ELSE IF StartsWith(s, p, "/", "/")
    THEN FirstNewline(s, p + 3) = 0
    ELSE IF StartsWith(s, p, "/", "*")
    THEN FirstClose(s, p + 3) = 0 \/ OnlySkippable(s, FirstClose(s, p + 3) + 1)
    ELSE FALSE

EofToken == Token(eof, 13, "TT_EOF")

----------------------------------------------------------------------------
\* Reading the stream (SpecScan, SpecComment)

\* An empty pushback buffer.
NoTokens == [i \in 1..TOKEN_PUTBACKS |-> ZeroToken]

\* What the first n lex calls on the stream s return, the caller's Token
\* zeroed before the first.
TokensOf(s, n) == LexTimes(Lexer(s, 0, NoTokens, 0), ZeroToken, n).out

Returned(tok) == [rc |-> 0, t |-> tok]

Identifier(contents) == Token(contents, Len(contents), "TT_IDENTIFIER")
Literal(contents) == Token(contents, Len(contents), "TT_LITERAL")
NewlineToken == Token(nline, 9, "TT_NEWLINE")

\* C6: when skip_to_token returns 0 the next character of the stream is
\* neither a space nor a tab, and no lex call prints "did not skip
\* whitespace correctly".
C6_NoWhitespaceError ==
    [][(op' = "lex" /\ unlexed_count = 0) =>
          /\ skip_to_token(input, pos).rc = 0 =>
                 ~IsBlank(fgetc(input, skip_to_token(input, pos).pos))
          /\ err' # ErrWhitespace]_vars

\* C7: a token that lex returns with 0 has length equal to the number of
\* characters of its contents and a kind other than TT_NO_TOKEN.
C7_TokenPopulated ==
    (op = "lex" /\ rc = 0) =>
        /\ t.length = Len(t.contents)
        /\ t.type \in TokenTypes \ {"TT_NO_TOKEN"}

\* C8: a lex call on an empty buffer and a stream that holds no further
\* token start returns 0 with the token "[end of file]", length 13, kind
\* TT_EOF, and a lex call after a call that returned that token returns it
\* again.
C8_EndOfInputStable ==
    [][op' = "lex" =>
          /\ (unlexed_count = 0 /\ OnlySkippable(input, pos)) =>
                 (rc' = 0 /\ t' = EofToken)
          /\ (op = "lex" /\ rc = 0 /\ t = EofToken) =>
                 (rc' = 0 /\ t' = EofToken)]_vars

\* The stream at position p holds // , a body without newline, a newline.
AtLineComment(s, p) == StartsWith(s, p, "/", "/") /\ FirstNewline(s, p + 3) # 0

\* C9: a lex call with the stream at a line comment that a newline ends
\* returns the token "[newline]" and leaves the stream just after that
\* newline; a//c<newline>b is read as a, newline, b, end of file.
C9_LineCommentKeepsNewline ==
    [][op' = "lex" =>
          /\ (unlexed_count = 0 /\ AtLineComment(input, pos)) =>
                 /\ rc' = 0
                 /\ t' = NewlineToken
                 /\ pos' = FirstNewline(input, pos + 3)
          /\ TokensOf(<<"a", "/", "/", "c", "\n", "b">>, 4) =
                 <<Returned(Identifier(<<"a">>)), Returned(NewlineToken),
                   Returned(Identifier(<<"b">>)), Returned(EofToken)>>]_vars

\* The stream a//a<newline>a has been read up to the newline that ends its
\* comment, which came back as a token.
C9_Witness ==
    /\ input = <<"a", "/", "/", "a", "\n", "a">>
    /\ op = "lex" /\ rc = 0
    /\ t = NewlineToken
    /\ pos = 5

\* The characters of s after index i are one run of identifier characters.
IdRunFrom(s, i) ==
    /\ i < Len(s)
    /\ \A j \in (i + 1)..Len(s) : is_valid_numeric_or_id_char(s[j])

\* s is /* , a body without */ , */ and a run of identifier characters.
BlockThenId(s) ==
    /\ StartsWith(s, 0, "/", "*")
    /\ FirstClose(s, 3) # 0
    /\ IdRunFrom(s, FirstClose(s, 3) + 1)

\* C10: on a stream that is a closed block comment and then a run of
\* identifier characters, the first lex call returns that run as one token,
\* an identifier or a literal, and every further call returns the end of
\* file; /* x */y is read as y, end of file.
C10_BlockCommentNoToken ==
    [][(op' = "lex" /\ BlockThenId(input)) =>
          /\ op = "none" =>
                 /\ rc' = 0
                 /\ t'.contents = SubSeq(input, FirstClose(input, 3) + 2, Len(input))
                 /\ t'.length = Len(t'.contents)
                 /\ t'.type \in {"TT_IDENTIFIER", "TT_LITERAL"}
                 /\ pos' = Len(input)
          /\ op = "lex" => (rc' = 0 /\ t' = EofToken)
          /\ TokensOf(<<"/", "*", " ", "x", " ", "*", "/", "y">>, 2) =
                 <<Returned(Identifier(<<"y">>)), Returned(EofToken)>>
          /\ TokensOf(<<"/", "*", "\n", "/", "/", "*", "*", "/", "1", ".", "5">>, 2) =
                 <<Returned(Literal(<<"1", ".", "5">>)), Returned(EofToken)>>]_vars

\* The stream /*<newline>/*/a , whose comment holds a newline and a slash,
\* has been read to its end: the second call returned the end of file.
C10_Witness ==
    /\ input = <<"/", "*", "\n", "/", "*", "/", "a">>
    /\ op = "lex" /\ rc = 0
    /\ t = EofToken
    /\ pos = 7

----------------------------------------------------------------------------
\* Identifier runs (SpecIdent)

\* The number of identifier characters s holds from position p on, up to
\* the first character outside the class or the end of the stream.
RECURSIVE RunLength(_, _)
RunLength(s, p) ==
    IF p < Len(s) /\ is_valid_numeric_or_id_char(s[p + 1])
    THEN 1 + RunLength(s, p + 1)
    ELSE 0

\* C11: a lex call with the stream at a run of TOKEN_LENGTH + 1 or more
\* identifier characters returns -1 with "identifier too long"; it does not
\* return 0 with the first characters of the run as a token.
C11_Overflow ==
    [][(op' = "lex" /\ unlexed_count = 0
            /\ RunLength(input, pos) >= TOKEN_LENGTH + 1) =>
          /\ rc' = -1
          /\ err' = ErrTooLong]_vars

\* The first call on a stream that opens with a run of TOKEN_LENGTH + 1
\* characters and a terminator has failed.
C11_Witness ==
    /\ RunLength(input, 0) = TOKEN_LENGTH + 1
    /\ Len(input) > TOKEN_LENGTH + 1
    /\ op = "lex" /\ rc = -1 /\ err = ErrTooLong
    /\ pos = TOKEN_LENGTH

----------------------------------------------------------------------------
\* Quoted literals (SpecQuote)

IsQuote(c) == c = "'" \/ c = "\""

\* The index of the first q at or after index i of s that no backslash
\* precedes, 0 if none.
RECURSIVE ClosingQuote(_, _, _)
ClosingQuote(s, i, q) ==
    IF i > Len(s)
    THEN 0
    ELSE IF s[i] = q /\ s[i - 1] # "\\" THEN i ELSE ClosingQuote(s, i + 1, q)

\* C12: a lex call with the stream at a quote character reads up to and
\* including the next such quote that no backslash precedes and returns 0
\* with a literal whose contents are those characters, both quotes
\* included; when the stream ends before that quote it returns -1.
C12_QuotedLiteral ==
    [][(op' = "lex" /\ unlexed_count = 0
            /\ pos < Len(input) /\ IsQuote(input[pos + 1])) =>
          LET close == ClosingQuote(input, pos + 2, input[pos + 1])
          IN IF close # 0
             THEN /\ rc' = 0
                  /\ t' = Literal(SubSeq(input, pos + 1, close))
                  /\ pos' = close
             ELSE rc' = -1]_vars

----------------------------------------------------------------------------
\* The classifiers (SpecClassify)

\* The kind of each punctuation character.
PunctKind ==
    ("(" :> "TT_OPAREN") @@ (")" :> "TT_CPAREN") @@
    ("{" :> "TT_OBRACE") @@ ("}" :> "TT_CBRACE") @@
    ("[" :> "TT_OBRACKET") @@ ("]" :> "TT_CBRACKET") @@
    (";" :> "TT_SEMI")

HasDotOrQuote(s) == \E i \in 1..Len(s) : s[i] = "." \/ IsQuote(s[i])

\* C13: ttype_from_string returns the punctuation kind for a text that is
\* one of the characters (){}[]; alone and what ttype_many_chars returns
\* for every other text; ttype_many_chars returns TT_LITERAL for every text
\* that holds a '.' or a quote character.
C13_ClassifierPrecedence ==
    /\ op = "ttype_from_string" =>
           kind = IF Len(text) = 1 /\ text[1] \in DOMAIN PunctKind
                  THEN PunctKind[text[1]]
                  ELSE ttype_many_chars(text)
    /\ (op = "ttype_many_chars" /\ HasDotOrQuote(text)) => kind = "TT_LITERAL"
    /\ \A s \in {<<"1">>, <<"1", ".", "2">>, <<"1", ".", "2", "f">>,
                 <<"1", ".", "f">>,
                 <<"\"", "P", "l", "a", "n", "c", "k", "\"">>,
                 <<"'", "L", "a", "n", "g", "u", "a", "g", "e", "'">>} :
           ttype_from_string(s) = "TT_LITERAL"
    /\ ttype_from_string(<<"(">>) = "TT_OPAREN"
    /\ ttype_from_string(<<"}">>) = "TT_CBRACE"
    /\ ttype_from_string(<<";">>) = "TT_SEMI"

\* ttype_from_string has been called with a semicolon followed by a '.',
\* two characters, and has answered as ttype_many_chars does.
C13_Witness ==
    /\ op = "ttype_from_string"
    /\ text = <<";", ".">>
    /\ kind = "TT_LITERAL"

AllDigits(s) == \A i \in 1..Len(s) : s[i] \in Digits

\* s is one or more decimal digits, or one or more decimal digits and a u.
NumericText(s) ==
    /\ Len(s) >= 1
    /\ \/ AllDigits(s)
       \/ Len(s) >= 2 /\ s[Len(s)] = "u" /\ AllDigits(SubSeq(s, 1, Len(s) - 1))

\* C14: for a text of one or more characters without '.' and without quote
\* character, ttype_many_chars returns TT_LITERAL when the text is decimal
\* digits, or decimal digits and one u after them, and TT_IDENTIFIER for
\* every other text: Jaba, cat_, u, 1f.
C14_NumericRule ==
    (op = "ttype_many_chars" /\ text # <<>> /\ ~HasDotOrQuote(text)) =>
        kind = IF NumericText(text) THEN "TT_LITERAL" ELSE "TT_IDENTIFIER"

----------------------------------------------------------------------------
\* Slashes and comments (SpecComment)

\* From position p on s holds blanks and closed block comments and then a
\* slash that a character other than * and / follows: the position just
\* after that slash; -1 when s holds something else there.
RECURSIVE SlashStop(_, _)
SlashStop(s, p) ==
    IF p >= Len(s)
    THEN -1
    ELSE IF IsBlank(s[p + 1])
    THEN SlashStop(s, p + 1)
    ELSE IF StartsWith(s, p, "/", "/")
    THEN -1
    ELSE IF StartsWith(s, p, "/", "*")
    THEN IF FirstClose(s, p + 3) = 0
         THEN -1
         ELSE SlashStop(s, FirstClose(s, p + 3) + 1)
    ELSE IF s[p + 1] = "/" /\ p + 2 <= Len(s)
    THEN p + 1
    ELSE -1

NoSlashIn(contents) == \A i \in 1..Len(contents) : contents[i] # "/"

\* C15: when the next thing in the stream outside comments is a slash
\* that a character other than * and / follows, skip_to_token leaves the
\* stream just after the slash, before that character; no token that lex
\* reads from the stream holds a slash; a/b is read as a, b.
C15_SlashDiscarded ==
    [][(op' = "lex" /\ unlexed_count = 0) =>
          /\ SlashStop(input, pos) # -1 =>
                 skip_to_token(input, pos).pos = SlashStop(input, pos)
          /\ rc' = 0 => NoSlashIn(t'.contents)
          /\ TokensOf(<<"a", "/", "b">>, 2) =
                 <<Returned(Identifier(<<"a">>)), Returned(Identifier(<<"b">>))>>]_vars

----------------------------------------------------------------------------
\* Identifier runs, continued (SpecIdent)

\* C16: a lex call with the stream at a run of n identifier characters,
\* 1 <= n <= TOKEN_LENGTH - 1, that another character or the end of the
\* stream follows, returns 0 with the run as contents, length n and the
\* kind the classifier gives the run, and leaves the stream just after the
\* run, before the character that ended it.
C16_GreedyIdentifier ==
    [][(op' = "lex" /\ unlexed_count = 0
            /\ RunLength(input, pos) >= 1
            /\ RunLength(input, pos) <= TOKEN_LENGTH - 1) =>
          LET n == RunLength(input, pos)
              run == SubSeq(input, pos + 1, pos + n)
          IN /\ rc' = 0
             /\ t' = Token(run, n, ttype_from_string(run))
             /\ pos' = pos + n]_vars

\* A run of TOKEN_LENGTH - 1 characters has been returned whole, and the
\* parenthesis that ended it is the next character of the stream.
C16_Witness ==
    /\ op = "lex" /\ rc = 0
    /\ t.length = TOKEN_LENGTH - 1
    /\ t.contents = SubSeq(input, 1, TOKEN_LENGTH - 1)
    /\ pos = TOKEN_LENGTH - 1
    /\ fgetc(input, pos) = "("

\* C18: a lex call fails with "identifier too long" only on a run of more
\* than TOKEN_LENGTH identifier characters; a run of TOKEN_LENGTH
\* characters that another character or the end of the stream follows is
\* returned whole.
C18_LengthThreshold ==
    [][(op' = "lex" /\ unlexed_count = 0) =>
          /\ err' = ErrTooLong => RunLength(input, pos) > TOKEN_LENGTH
          /\ RunLength(input, pos) = TOKEN_LENGTH =>
                 /\ rc' = 0
                 /\ t'.contents = SubSeq(input, pos + 1, pos + TOKEN_LENGTH)
                 /\ t'.length = TOKEN_LENGTH
                 /\ pos' = pos + TOKEN_LENGTH]_vars

----------------------------------------------------------------------------
\* Block comments, continued (SpecComment)

\* C17: a block comment opened by /* at the stream position closes at the
\* first */ whose * comes after the opener, never at the opener's own *:
\* with no such */ the call returns the end of file, the whole rest being
\* comment (so after /*/ the scanner is still inside); with an identifier
\* character or a newline right after that */ the call returns the token
\* that starts there.  /**/ is a whole comment and /*/*/ closes at its
\* last slash.
C17_SuppressionStep ==
    [][(op' = "lex" /\ unlexed_count = 0 /\ StartsWith(input, pos, "/", "*")) =>
          LET j == FirstClose(input, pos + 3)
              n == RunLength(input, j + 1)
          IN /\ j = 0 => (rc' = 0 /\ t' = EofToken /\ pos' = Len(input))
             /\ (j # 0 /\ n >= 1) =>
                    /\ rc' = 0
                    /\ t'.contents = SubSeq(input, j + 2, j + 1 + n)
                    /\ pos' = j + 1 + n
             /\ (j # 0 /\ fgetc(input, j + 1) = "\n") =>
                    (rc' = 0 /\ t' = NewlineToken /\ pos' = j + 2)
             /\ TokensOf(<<"/", "*", "/", "a">>, 1) = <<Returned(EofToken)>>
             /\ TokensOf(<<"/", "*", "*", "/", "a">>, 1) =
                    <<Returned(Identifier(<<"a">>))>>
             /\ TokensOf(<<"/", "*", "/", "*", "/", "a">>, 1) =
                    <<Returned(Identifier(<<"a">>))>>]_vars

\* The first call on /*/*/a has returned the a: the comment closed at the
\* third slash and not at the second.
C17_Witness ==
    /\ input = <<"/", "*", "/", "*", "/", "a">>
    /\ op = "lex" /\ rc = 0
    /\ t = Identifier(<<"a">>)
    /\ pos = 6
    /\ pops = 0 /\ unlexed_count = 0

\* C19: the slash that closes a block comment opens no comment with the
\* character after it.  With a * right after a closed block comment the
\* call returns that * as a token; with a slash and then an identifier
\* character after it, the identifier; /*a*//*b*/c is read as c, end of
\* file.
C19_CloseOpensNothing ==
    [][(op' = "lex" /\ unlexed_count = 0 /\ StartsWith(input, pos, "/", "*")
            /\ FirstClose(input, pos + 3) # 0) =>
          LET after == FirstClose(input, pos + 3) + 1
          IN /\ fgetc(input, after) = "*" =>
                    (rc' = 0 /\ t'.contents = <<"*">> /\ pos' = after + 1)
             /\ (fgetc(input, after) = "/" /\ RunLength(input, after + 1) >= 1) =>
                    /\ rc' = 0
                    /\ t'.contents =
                           SubSeq(input, after + 2,
                                  after + 1 + RunLength(input, after + 1))
             /\ TokensOf(<<"/", "*", "a", "*", "/", "/", "*", "b", "*", "/", "c">>, 2) =
                    <<Returned(Identifier(<<"c">>)), Returned(EofToken)>>]_vars

----------------------------------------------------------------------------
\* Progress (SpecProgress)

\* C20: a lex call on an empty buffer with characters left in the stream
\* leaves the stream at least one character further, whatever it returns,
\* and never past the end; so a caller that keeps calling lex is in the
\* end handed the token "[end of file]".
C20_Progress ==
    /\ [][(op' = "lex" /\ unlexed_count = 0 /\ pos < Len(input)) =>
             (pos' > pos /\ pos' <= Len(input))]_vars
    /\ <>(op = "lex" /\ rc = 0 /\ t = EofToken /\ pos = Len(input))

\* The stream slash, space, a has been read to its end: the first call
\* failed on the space, the third returned the end of file.
C20_Witness ==
    /\ input = <<"/", " ", "a">>
    /\ op = "lex" /\ rc = 0
    /\ t = EofToken
    /\ pos = 3

====
